---- MODULE Spec2Model ----
(***************************************************************************)
(* The retry and throttle decorators of PyPyPy / request_mixin:            *)
(*   pypypy/decorators/repeat_upon_error.py        RepeatUponError         *)
(*   request_mixin/decorators/repeat_upon_error.py RepeatUponError         *)
(*   request_mixin/decorators.py                   RepeatOnError           *)
(*   pypypy/decorators/sewd.py                     SegmentExecutionWithDelay*)
(*   request_mixin/decorators/sewd.py              segment_execution_with_delay*)
(*   request_mixin/request_mixin.py                make_request (stack)    *)
(* One decorated callable is built (target says which), then invoked a     *)
(* bounded number of times.  Calls nest through a stack of frames: the     *)
(* retry wrapper, the throttle gate and the wrapped callable itself.       *)
(***************************************************************************)
EXTENDS Integers, Sequences, FiniteSets, TLC

\* ---- bounds of the model ------------------------------------------------
MaxAttempts == 3
MaxInvocations == 2
MaxRun == 1
MaxGap == 2
MaxDelay == 2
MaxTick == 1

\* ---- values ---------------------------------------------------------------
\* Python's None where a number or a time is expected (clock values are > 0)
None == -1

\* subclasses of Exception the wrapped callable may raise; HTTPError is a
\* subclass of RequestException, ValueError is unrelated to both
ExceptionClasses == {"RequestException", "HTTPError", "ValueError"}

\* everything the wrapped callable may raise: KeyboardInterrupt derives from
\* BaseException, not from Exception
Raisable == ExceptionClasses \cup {"KeyboardInterrupt"}

\* the allow-list make_request passes to RepeatUponError.repeat
request_exceptions == {"RequestException", "HTTPError"}

\* repeat_exception_types: unset (None) or a list of classes
NoTypes == [given |-> FALSE, kinds |-> {}]

TypesList(k) == [given |-> TRUE, kinds |-> k]

AllowLists ==
    {NoTypes, TypesList({}), TypesList({"RequestException"}), TypesList(request_exceptions)}

\* bool(repeat_exception_types): None and the empty list are falsy
Truthy(types) == types.given /\ types.kinds # {}

\* bool(t) of a time value: None and 0 are falsy
Falsy(t) == t = None \/ t = 0

Max(a, b) == IF a >= b THEN a ELSE b

\* an exception object: its class and the execution of the callable that raised it
NoExc == [cls |-> "none", id |-> 0]

Exc(c, k) == [cls |-> c, id |-> k]

\* how a call ends: a returned value, or a raised exception (errs is the
\* argument of a StoredExceptionArray)
NoRet == [kind |-> "none", val |-> 0, exc |-> NoExc, errs |-> <<>>]

Return(v) == [kind |-> "return", val |-> v, exc |-> NoExc, errs |-> <<>>]

Raise(e) == [kind |-> "raise", val |-> 0, exc |-> e, errs |-> <<>>]

StoredExceptionArray(errs) ==
    [kind |-> "raise", val |-> 0, exc |-> Exc("StoredExceptionArray", 0), errs |-> errs]

\* instance_field__num: a bare number, or (attribute name, fallback)
Bare(v) == [attr |-> "", val |-> v]

Pair(a, d) == [attr |-> a, val |-> d]

Instances == {"a", "b"}

VARIABLES
    target,                 \* which decorated callable is under test
    attempt_count,          \* retry: the attempt_count argument
    request_delay,          \* RepeatOnError: the request_delay argument
    repeat_exception_types, \* retry: the allow-list argument
    delay,                  \* SegmentExecutionWithDelay: self.delay
    fields,                 \* attributes of the calling instances
    life,                   \* "new", "config_error", "idle", "running", "done"
    stack,                  \* frames of the call in progress, innermost first
    now,                    \* time.time()
    invocations,            \* top-level invocations started so far
    requester,              \* the instance the call in progress was made through
    ret,                    \* outcome handed from a finished frame to its caller
    rpc,                    \* position in the retry wrapper
    X,                      \* RepeatUponError: loop index
    attempt,                \* RepeatOnError: argument of recursively_invoke_func
    attempt_count_l,        \* RepeatOnError: local attempt_count
    request_delay_l,        \* RepeatOnError: local request_delay
    memory,                 \* RepeatOnError: last_executed['time']
    sleep_for,              \* RepeatOnError: value _delay_for returned
    error_container,        \* RepeatUponError: error_container
    saved,                  \* locals of the invocations suspended by a nested one
    gpc,                    \* position in the throttle gate
    last_executed,          \* gate: self._last_executed / last_executed['value']
    delay_span,             \* gate: delay_span
    execs,                  \* history: executions of the callable in this invocation
    raised,                 \* history: exceptions the callable raised in this invocation
    rsleeps,                \* history: time.sleep arguments of the retry wrapper
    gsleeps,                \* history: time.sleep arguments of the gate
    gate_entries,           \* history: entries into the gate in this invocation
    gate_d,                 \* history: delay the gate used at its last entry
    reads,                  \* history: clock readings the gate made at its last entry
    read_at,                \* history: last clock value the gate read before running
    last_end,               \* history: when the callable last returned or raised
    last_kind,              \* history: "return" or "raise", how that execution ended
    started_after,          \* history: time from that end to the latest start
    after_kind,             \* history: how the execution before the latest one ended
    ran,                    \* history: how long the latest execution of this invocation took
    last_by                 \* history: the instance the callable last ran for

cfgVars == <<target, attempt_count, request_delay, repeat_exception_types, delay, fields>>

retryVars == <<rpc, X, attempt, attempt_count_l, request_delay_l, memory, sleep_for,
               error_container>>

gateVars == <<gpc, last_executed, delay_span>>

gateHist == <<gsleeps, gate_entries, gate_d, reads, read_at>>

histVars == <<execs, raised, rsleeps, last_end, last_kind, started_after, after_kind,
              ran, last_by>>

vars == <<cfgVars, saved, life, stack, now, invocations, requester, ret, retryVars, gateVars,
          gateHist, histVars>>

RetryTargets == {"pypypy_rue", "rm_rue", "roe"}

GateTargets == {"SEWD", "sewd"}

Targets == RetryTargets \cup GateTargets \cup {"make_request"}

\* the clock is read by the gates and, when request_delay is not the bare
\* number 0, by RepeatOnError._delay_for; the other wrappers never read it
Timed ==
    \/ target \in GateTargets \cup {"make_request"}
    \/ target = "roe" /\ request_delay # [attr |-> "", val |-> 0]

\* how long one execution of the wrapped callable may take
RunTimes == IF Timed THEN 0..MaxRun ELSE {0}

\* how long after the end of an invocation the next one may start; only the
\* gates keep a time from one invocation to the next
Gaps == IF target \in GateTargets \cup {"make_request"} THEN 0..MaxGap ELSE {0}

\* ---- the calling instances ------------------------------------------------
\* an instance with neither attribute
NoFields == [has |-> {}, attempts |-> 0, delay |-> 0]

WithFields(n, d) == [has |-> {"attempts", "delay"}, attempts |-> n, delay |-> d]

hasattr(inst, a) == a \in fields[inst].has

getattr(inst, a) == IF a = "attempts" THEN fields[inst].attempts ELSE fields[inst].delay

\* instance "a" carries the attributes, instance "b" carries none
FieldsOf(n, d) == [i \in Instances |-> IF i = "a" THEN WithFields(n, d) ELSE NoFields]

Config(t, n, rd, ty, d, f) ==
    [target |-> t, attempt_count |-> n, request_delay |-> rd,
     repeat_exception_types |-> ty, delay |-> d, fields |-> f]

\* the retry wrappers the model builds: every allow-list with a bare count
\* and no delay; RepeatOnError with a delay; RepeatOnError with both settings
\* read from the calling instance
RetryConfigs ==
    {Config(t, Bare(n), Bare(0), ty, 0, FieldsOf(0, 0)) :
        t \in RetryTargets, n \in -1..MaxAttempts, ty \in AllowLists}
    \cup
    {Config("roe", Bare(n), Bare(rd), NoTypes, 0, FieldsOf(0, 0)) :
        n \in 1..MaxAttempts, rd \in 1..MaxDelay}
    \cup
    {Config("roe", Pair("attempts", 1), Pair("delay", 0), NoTypes, 0, FieldsOf(n, d)) :
        n \in {0, 2}, d \in {-1, 1}}

\* the throttle gates the model builds
GateConfigs ==
    {Config("SEWD", Bare(1), Bare(0), NoTypes, d, FieldsOf(0, 0)) : d \in 0..MaxDelay}
    \cup
    {Config("sewd", Bare(1), Bare(0), NoTypes, 0, FieldsOf(0, d)) : d \in 0..MaxDelay}

\* RequestMixin.make_request as create_request_mixin builds it
RequestConfigs ==
    {Config("make_request", Bare(n), Bare(0), TypesList(request_exceptions), d,
            FieldsOf(0, 0)) : n \in 0..MaxAttempts, d \in {0, MaxDelay}}

Configs == RetryConfigs \cup GateConfigs \cup RequestConfigs

\* the instances a call may be made through: both where the decorator reads
\* an attribute of the instance and for the gates, one otherwise
Callers ==
    IF target \in GateTargets \/ attempt_count.attr # "" \/ request_delay.attr # ""
    THEN Instances ELSE {"a"}

InitWith(cs) ==
    /\ \E c \in cs :
        /\ target = c.target
        /\ attempt_count = c.attempt_count
        /\ request_delay = c.request_delay
        /\ repeat_exception_types = c.repeat_exception_types
        /\ delay = c.delay
        /\ fields = c.fields
    /\ life = "new"
    /\ stack = <<>>
    /\ now = 1
    /\ invocations = 0
    /\ requester = "a"
    /\ ret = NoRet
    /\ rpc = "idle"
    /\ X = 0
    /\ attempt = 0
    /\ attempt_count_l = 0
    /\ request_delay_l = 0
    /\ memory = None
    /\ sleep_for = 0
    /\ error_container = <<>>
    /\ saved = <<>>
    /\ gpc = "idle"
    /\ last_executed = None
    /\ delay_span = 0
    /\ execs = 0
    /\ raised = <<>>
    /\ rsleeps = <<>>
    /\ gsleeps = <<>>
    /\ gate_entries = 0
    /\ gate_d = 0
    /\ reads = 0
    /\ read_at = None
    /\ last_end = None
    /\ last_kind = "none"
    /\ started_after = None
    /\ after_kind = "none"
    /\ ran = 0
    /\ last_by = "none"

\* ---- construction ---------------------------------------------------------
\* RepeatUponError.__init__, were only a negative count refused
RepeatUponError__init__negative(count) == IF count < 0 THEN "ValueError" ELSE "ok"

\* RepeatUponError.__init__ (both copies): a count <= 0 raises ValueError
RepeatUponError__init__(count) == IF count <= 0 THEN "ValueError" ELSE "ok"

\* RepeatOnError.__post_init__ validates nothing
RepeatOnError__post_init__(count) == "ok"

Constructor ==
    IF target \in {"pypypy_rue", "rm_rue", "make_request"}
    THEN RepeatUponError__init__(attempt_count.val)
    ELSE IF target = "roe" THEN RepeatOnError__post_init__(attempt_count.val)
    ELSE "ok"

\* the decorator is applied to the callable (class definition time)
Construct ==
    /\ life = "new"
    /\ IF Constructor = "ok"
       THEN life' = "idle" /\ ret' = ret
       ELSE life' = "config_error" /\ ret' = Raise(Exc(Constructor, 0))
    /\ last_executed' = None
    /\ UNCHANGED <<cfgVars, saved, stack, now, invocations, requester, retryVars, gpc,
                   delay_span, gateHist, histVars>>

\* ---- calls and returns ----------------------------------------------------
TopFrame == IF target \in GateTargets THEN "gate" ELSE "retry"

Top == IF stack = <<>> THEN "none" ELSE Head(stack)

\* a frame finishes: control goes back to its caller, or the invocation ends
Pop ==
    /\ stack' = Tail(stack)
    /\ life' = IF Tail(stack) = <<>> THEN "done" ELSE life

\* a caller invokes the decorated callable through an instance, some time
\* after the previous invocation ended
Invoke(inst, gap) ==
    /\ life \in {"idle", "done"}
    /\ invocations < MaxInvocations
    /\ life' = "running"
    /\ invocations' = invocations + 1
    /\ requester' = inst
    /\ now' = now + gap
    /\ stack' = <<TopFrame>>
    /\ ret' = NoRet
    /\ rpc' = IF TopFrame = "retry" THEN "call" ELSE "idle"
    /\ gpc' = IF TopFrame = "gate" THEN "call" ELSE "idle"
    /\ execs' = 0
    /\ raised' = <<>>
    /\ rsleeps' = <<>>
    /\ gsleeps' = <<>>
    /\ gate_entries' = 0
    /\ ran' = 0
    /\ UNCHANGED <<cfgVars, saved, X, attempt, attempt_count_l, request_delay_l, memory,
                   sleep_for, error_container, last_executed, delay_span, gate_d, reads,
                   read_at, last_end, last_kind, started_after, after_kind, last_by>>

\* the attributes of the calling instance the decorator under test reads
ReadAttrs ==
    ({attempt_count.attr, request_delay.attr} \ {""})
        \cup (IF target = "sewd" THEN {"delay"} ELSE {})

\* the values client code may give such an attribute
AttrValues(a) == IF a = "attempts" THEN {1, MaxAttempts} ELSE {0, MaxDelay}

\* setattr(inst, a, v)
setattr(inst, a, v) ==
    [fields EXCEPT ![inst] = [has |-> @.has \cup {a},
                              attempts |-> IF a = "attempts" THEN v ELSE @.attempts,
                              delay |-> IF a = "delay" THEN v ELSE @.delay]]

\* after a call has ended and before the next one, client code assigns an
\* attribute the decorator reads
SetAttr(inst, a, v) ==
    /\ life = "done"
    /\ invocations < MaxInvocations
    /\ a \in ReadAttrs
    /\ v \in AttrValues(a)
    /\ fields' = setattr(inst, a, v)
    /\ fields' # fields
    /\ life' = "idle"
    /\ UNCHANGED <<target, attempt_count, request_delay, repeat_exception_types, delay,
                   saved, stack, now, invocations, requester, ret, retryVars, gateVars,
                   gateHist, histVars>>

\* the wrapped callable runs for r time units and returns or raises
FuncRun(out, r) ==
    /\ Top = "func"
    /\ now' = now + r
    /\ execs' = execs + 1
    /\ ret' = IF out = "return" THEN Return(execs + 1) ELSE Raise(Exc(out, execs + 1))
    /\ raised' = IF out = "return" THEN raised ELSE Append(raised, Exc(out, execs + 1))
    /\ started_after' = IF last_end = None THEN None ELSE now - last_end
    /\ after_kind' = last_kind
    /\ last_end' = now + r
    /\ last_kind' = IF out = "return" THEN "return" ELSE "raise"
    /\ ran' = r
    /\ last_by' = requester
    /\ stack' = Tail(stack)
    /\ UNCHANGED <<cfgVars, saved, life, invocations, requester, retryVars, gateVars,
                   gateHist, rsleeps>>

\* ---- the retry wrappers ---------------------------------------------------
\* the locals of RepeatUponError.__call__ and the history of one invocation
Frame(x, container, n, errs, inst) ==
    [X |-> x, error_container |-> container, execs |-> n, raised |-> errs,
     requester |-> inst]

\* the callable, while it runs under RepeatUponError, calls the decorated
\* callable again (the nested call makes no call of this kind itself): a new
\* __call__ frame starts with locals of its own and the frame of the
\* invocation in progress is suspended
Reenter(inst) ==
    /\ target \in {"pypypy_rue", "rm_rue"}
    /\ life = "running" /\ Top = "func"
    /\ saved = <<>>
    /\ invocations < MaxInvocations
    /\ invocations' = invocations + 1
    /\ saved' = <<Frame(X, error_container, execs, raised, requester)>> \o saved
    /\ stack' = <<"retry">> \o stack
    /\ requester' = inst
    /\ rpc' = "call"
    /\ ret' = NoRet
    /\ execs' = 0
    /\ raised' = <<>>
    /\ UNCHANGED <<cfgVars, life, now, X, attempt, attempt_count_l, request_delay_l,
                   memory, sleep_for, error_container, gateVars, gateHist, rsleeps,
                   last_end, last_kind, started_after, after_kind, ran, last_by>>

\* __call__ of a retry wrapper ends, its container being c: the invocation is
\* over, or control is back in the callable that made the nested call, whose
\* invocation has its own locals again
Leave(c) ==
    /\ Pop
    /\ IF Tail(stack) = <<>>
       THEN /\ rpc' = "idle"
            /\ error_container' = c
            /\ UNCHANGED <<saved, X, execs, raised, requester>>
       ELSE /\ rpc' = "wait"
            /\ error_container' = Head(saved).error_container
            /\ X' = Head(saved).X
            /\ execs' = Head(saved).execs
            /\ raised' = Head(saved).raised
            /\ requester' = Head(saved).requester
            /\ saved' = Tail(saved)

\* _extract_attribute, were the fallback of a pair always returned
extract_attribute_fallback(instance, attribute) == attribute.val

\* RepeatOnError._extract_attribute
extract_attribute(instance, attribute) ==
    IF attribute.attr # ""
    THEN IF hasattr(instance, attribute.attr)
         THEN getattr(instance, attribute.attr)
         ELSE attribute.val
    ELSE attribute.val

\* the attempt count of the call, were the resolved value used as it is
resolve_attempt_count_unclamped(inst) == extract_attribute(inst, attempt_count)

\* RepeatOnError.__call__: attempt_count = max(self._extract_attribute(...), 1)
resolve_attempt_count(inst) == Max(extract_attribute(inst, attempt_count), 1)

\* RepeatOnError.__call__: request_delay = max(self._extract_attribute(...), 0)
resolve_request_delay(inst) == Max(extract_attribute(inst, request_delay), 0)

\* the container, were it kept on the decorator from one call to the next
error_container_kept == error_container

\* RepeatUponError.__call__: error_container = [], a list made at every entry
error_container_at_entry == <<>>

\* the wrapper is entered: locals are set up before the first attempt; a
\* RepeatUponError whose range(0, self.attempt_count) is empty would leave the
\* loop at once and return None
RetryCall ==
    /\ Top = "retry" /\ rpc = "call"
    /\ error_container' = error_container_at_entry
    /\ X' = 0
    /\ IF target = "roe"
       THEN /\ attempt_count_l' = resolve_attempt_count(requester)
            /\ request_delay_l' = resolve_request_delay(requester)
            /\ memory' = None
            /\ attempt' = attempt_count_l' - 1
       ELSE UNCHANGED <<attempt_count_l, request_delay_l, memory, attempt>>
    /\ IF target # "roe" /\ attempt_count.val <= 0
       THEN rpc' = "idle" /\ ret' = Return(None) /\ Pop
       ELSE rpc' = "try" /\ UNCHANGED <<life, stack, ret>>
    /\ UNCHANGED <<cfgVars, saved, now, invocations, requester, sleep_for, gateVars, gateHist,
                   histVars>>

\* the retry wrapper, were it applied to the function itself
CalleeFunc == "func"

\* what the retry wrapper wraps: make_request stacks RepeatUponError on top
\* of SegmentExecutionWithDelay, which wraps the function itself
Callee == IF target = "make_request" THEN "gate" ELSE "func"

\* try: return self.func(...)
RetryTry ==
    /\ Top = "retry" /\ rpc = "try"
    /\ stack' = <<Callee>> \o stack
    /\ rpc' = "wait"
    /\ gpc' = IF Callee = "gate" THEN "call" ELSE gpc
    /\ ret' = NoRet
    /\ UNCHANGED <<cfgVars, saved, life, now, invocations, requester, X, attempt,
                   attempt_count_l, request_delay_l, memory, sleep_for, error_container,
                   last_executed, delay_span, gateHist, histVars>>

\* the wrapped call returned: its result is returned at once
RetryReturn ==
    /\ Top = "retry" /\ rpc = "wait" /\ ret.kind = "return"
    /\ Leave(error_container)
    /\ UNCHANGED <<cfgVars, now, invocations, ret, attempt, attempt_count_l,
                   request_delay_l, memory, sleep_for, gateVars, gateHist, rsleeps,
                   last_end, last_kind, started_after, after_kind, ran, last_by>>

Decision(do, r, c) == [do |-> do, ret |-> r, container |-> c]

\* pypypy RepeatUponError, line 42: skip
pypypy_skip(types, cls) == Truthy(types) \/ cls \in types.kinds

\* pypypy RepeatUponError: except (Exception, KeyboardInterrupt) as e
pypypy_except(types, e, x, container) ==
    LET ec == Append(container, e)
    IN  IF ~types.given
        THEN \* None is falsy, so `e.__class__ in None` is evaluated
             Decision("raise", Raise(Exc("TypeError", 0)), ec)
        ELSE IF ~pypypy_skip(types, e.cls) \/ x = attempt_count.val - 1
             THEN Decision("raise", StoredExceptionArray(ec), ec)
             ELSE Decision("continue", NoRet, ec)

\* the class and its base classes among the modelled ones
Bases(cls) == IF cls = "HTTPError" THEN {"HTTPError", "RequestException"} ELSE {cls}

\* rm_except, were an exception also retried when a base class of its class
\* is listed
rm_except_ancestry(types, e, x, container) ==
    IF e.cls \notin ExceptionClasses
    THEN Decision("raise", Raise(e), container)
    ELSE LET ec == Append(container, e)
             last_attempt == x = attempt_count.val - 1
         IN  IF ~Truthy(types)
             THEN IF last_attempt
                  THEN Decision("raise", Raise(e), ec)
                  ELSE Decision("continue", NoRet, ec)
             ELSE IF Bases(e.cls) \cap types.kinds = {}
                  THEN Decision("raise", Raise(e), ec)
                  ELSE IF last_attempt
                       THEN Decision("raise", StoredExceptionArray(ec), ec)
                       ELSE Decision("continue", NoRet, ec)

\* rm_except, were the last attempt always to re-raise the last exception
rm_except_raise_last(types, e, x, container) ==
    IF e.cls \notin ExceptionClasses
    THEN Decision("raise", Raise(e), container)
    ELSE LET ec == Append(container, e)
             last_attempt == x = attempt_count.val - 1
         IN  IF ~Truthy(types)
             THEN IF last_attempt
                  THEN Decision("raise", Raise(e), ec)
                  ELSE Decision("continue", NoRet, ec)
             ELSE IF e.cls \notin types.kinds \/ last_attempt
                  THEN Decision("raise", Raise(e), ec)
                  ELSE Decision("continue", NoRet, ec)

\* request_mixin RepeatUponError: except Exception as e
rm_except(types, e, x, container) ==
    IF e.cls \notin ExceptionClasses
    THEN Decision("raise", Raise(e), container)
    ELSE LET ec == Append(container, e)
             last_attempt == x = attempt_count.val - 1
         IN  IF ~Truthy(types)
             THEN IF last_attempt
                  THEN Decision("raise", Raise(e), ec)
                  ELSE Decision("continue", NoRet, ec)
             ELSE IF e.cls \notin types.kinds
                  THEN Decision("raise", Raise(e), ec)
                  ELSE IF last_attempt
                       THEN Decision("raise", StoredExceptionArray(ec), ec)
                       ELSE Decision("continue", NoRet, ec)

\* the two except clauses, were a retryable failure retried whatever attempt is
roe_except_unbounded(types, e, att) ==
    IF e.cls = "KeyboardInterrupt" \/ e.cls \notin ExceptionClasses
    THEN Decision("raise", Raise(e), <<>>)
    ELSE IF Truthy(types) /\ e.cls \notin types.kinds
         THEN Decision("raise", Raise(e), <<>>)
         ELSE Decision("sleep", NoRet, <<>>)

\* RepeatOnError.recursively_invoke_func: the two except clauses
roe_except(types, e, att) ==
    IF e.cls = "KeyboardInterrupt" \/ e.cls \notin ExceptionClasses
    THEN Decision("raise", Raise(e), <<>>)
    ELSE IF Truthy(types) /\ e.cls \notin types.kinds
         THEN Decision("raise", Raise(e), <<>>)
         ELSE IF att > 0
              THEN Decision("sleep", NoRet, <<>>)
              ELSE Decision("raise", Raise(e), <<>>)

\* RepeatOnError._delay_for: the wait, and memory['time'] afterwards
RepeatOnError_delay_for(span, mem, t) ==
    IF span <= 0
    THEN [wait |-> 0, memory |-> mem]
    ELSE LET time_difference == IF mem # None THEN t - mem ELSE 0
         IN  [wait |-> Max(span - time_difference, 0), memory |-> t]

\* the handler of the retry wrapper under test, were its allow-list types
HandlerWith(types) ==
    IF target = "pypypy_rue" THEN pypypy_except(types, ret.exc, X, error_container)
    ELSE IF target = "roe" THEN roe_except(types, ret.exc, attempt)
    ELSE rm_except(types, ret.exc, X, error_container)

Handler == HandlerWith(repeat_exception_types)

\* the wrapped call raised and the wrapper raises in turn
RetryRaise ==
    /\ Top = "retry" /\ rpc = "wait" /\ ret.kind = "raise"
    /\ Handler.do = "raise"
    /\ ret' = Handler.ret
    /\ Leave(Handler.container)
    /\ UNCHANGED <<cfgVars, now, invocations, attempt, attempt_count_l, request_delay_l,
                   memory, sleep_for, gateVars, gateHist, rsleeps, last_end, last_kind,
                   started_after, after_kind, ran, last_by>>

\* RepeatUponError: the loop goes on to the next X
RetryContinue ==
    /\ Top = "retry" /\ rpc = "wait" /\ ret.kind = "raise"
    /\ Handler.do = "continue"
    /\ error_container' = Handler.container
    /\ X' = X + 1
    /\ rpc' = "try"
    /\ ret' = NoRet
    /\ UNCHANGED <<cfgVars, saved, life, stack, now, invocations, requester, attempt,
                   attempt_count_l, request_delay_l, memory, sleep_for, gateVars,
                   gateHist, histVars>>

\* RepeatOnError: _delay_for is evaluated for the coming time.sleep
RetryDelayFor ==
    /\ Top = "retry" /\ rpc = "wait" /\ ret.kind = "raise"
    /\ Handler.do = "sleep"
    /\ LET d == RepeatOnError_delay_for(request_delay_l, memory, now)
       IN  sleep_for' = d.wait /\ memory' = d.memory
    /\ rpc' = "sleep"
    /\ ret' = NoRet
    /\ UNCHANGED <<cfgVars, saved, life, stack, now, invocations, requester, X, attempt,
                   attempt_count_l, request_delay_l, error_container, gateVars, gateHist,
                   histVars>>

\* RepeatOnError: time.sleep(...), then recursively_invoke_func(attempt-1)
RetrySleep ==
    /\ Top = "retry" /\ rpc = "sleep"
    /\ now' = now + sleep_for
    /\ rsleeps' = Append(rsleeps, sleep_for)
    /\ attempt' = attempt - 1
    /\ rpc' = "try"
    /\ UNCHANGED <<cfgVars, saved, life, stack, invocations, requester, ret, X, attempt_count_l,
                   request_delay_l, memory, sleep_for, error_container, gateVars,
                   gateHist, execs, raised, last_end, last_kind, started_after, after_kind,
                   ran, last_by>>

\* ---- the throttle gates ---------------------------------------------------
\* ready, were the stored time to count only against the instance whose
\* call stored it
SEWD_ready_own(t) ==
    Falsy(last_executed) \/ last_by # requester \/ t - last_executed >= delay

\* ready, were a gate that has stored no time never ready
SEWD_ready_stored_only(t) == ~Falsy(last_executed) /\ t - last_executed >= delay

\* SegmentExecutionWithDelay.ready, the clock reading t
SEWD_ready(t) == Falsy(last_executed) \/ t - last_executed >= delay

\* the test before time.sleep, were a wait of zero slept as well
sleeps_zero(span) == span >= 0

\* if delay_span > 0: time.sleep(delay_span)
sleeps(span) == span > 0

\* SegmentExecutionWithDelay.__call__: if not(self.ready)
SEWDCall ==
    /\ Top = "gate" /\ gpc = "call" /\ target \in {"SEWD", "make_request"}
    /\ gate_entries' = gate_entries + 1
    /\ gate_d' = delay
    /\ reads' = IF Falsy(last_executed) THEN 0 ELSE 1
    /\ read_at' = now
    /\ gpc' = IF SEWD_ready(now) THEN "func" ELSE "elapsed"
    /\ UNCHANGED <<cfgVars, saved, life, stack, now, invocations, requester, ret, retryVars,
                   last_executed, delay_span, gsleeps, histVars>>

\* SegmentExecutionWithDelay.__call__: the clock is read again, a moment later
SEWDElapsed(tick) ==
    /\ Top = "gate" /\ gpc = "elapsed"
    /\ now' = now + tick
    /\ read_at' = now'
    /\ LET time_elapsed == now' - last_executed
       IN  delay_span' = delay - time_elapsed
    /\ reads' = reads + 1
    /\ gpc' = IF sleeps(delay_span') THEN "sleep" ELSE "func"
    /\ UNCHANGED <<cfgVars, saved, life, stack, invocations, requester, ret, retryVars,
                   last_executed, gsleeps, gate_entries, gate_d, histVars>>

\* delay_for, were the whole delay waited whenever it has not elapsed
sewd_delay_for_whole(d, last, t) ==
    IF Falsy(last) THEN -1
    ELSE LET time_difference == t - last
         IN  IF time_difference >= d THEN -1 ELSE d

\* segment_execution_with_delay.delay_for, the clock reading t
sewd_delay_for(d, last, t) ==
    IF Falsy(last) THEN -1
    ELSE LET time_difference == t - last
         IN  IF time_difference >= d THEN -1 ELSE d - time_difference

\* try_get_delay, were the delay of an instance without the attribute 0
try_get_delay_or_zero(self) ==
    IF ~hasattr(self, "delay")
    THEN [raised |-> FALSE, value |-> 0]
    ELSE [raised |-> FALSE, value |-> getattr(self, "delay")]

\* segment_execution_with_delay.try_get_delay: ValueError when the instance
\* has no delay attribute, the attribute's value otherwise
try_get_delay(self) ==
    IF ~hasattr(self, "delay")
    THEN [raised |-> TRUE, value |-> 0]
    ELSE [raised |-> FALSE, value |-> getattr(self, "delay")]

\* segment_execution_with_delay: wrapped, up to the sleep
SewdWrapped ==
    /\ Top = "gate" /\ gpc = "call" /\ target = "sewd"
    /\ gate_entries' = gate_entries + 1
    /\ IF try_get_delay(requester).raised
       THEN /\ ret' = Raise(Exc("ValueError", 0))
            /\ gpc' = "idle"
            /\ Pop
            /\ UNCHANGED <<delay_span, gate_d, reads, read_at>>
       ELSE /\ delay_span' = sewd_delay_for(try_get_delay(requester).value, last_executed,
                                             now)
            /\ gate_d' = try_get_delay(requester).value
            /\ reads' = IF Falsy(last_executed) THEN 0 ELSE 1
            /\ read_at' = now
            /\ gpc' = IF sleeps(delay_span') THEN "sleep" ELSE "func"
            /\ UNCHANGED <<life, stack, ret>>
    /\ UNCHANGED <<cfgVars, saved, now, invocations, requester, retryVars, last_executed,
                   gsleeps, histVars>>

\* time.sleep(delay_span)
GateSleep ==
    /\ Top = "gate" /\ gpc = "sleep"
    /\ now' = now + delay_span
    /\ gsleeps' = Append(gsleeps, delay_span)
    /\ gpc' = "func"
    /\ UNCHANGED <<cfgVars, saved, life, stack, invocations, requester, ret, retryVars,
                   last_executed, delay_span, gate_entries, gate_d, reads, read_at,
                   histVars>>

\* return_value = self.func(...)
GateFunc ==
    /\ Top = "gate" /\ gpc = "func"
    /\ stack' = <<"func">> \o stack
    /\ gpc' = "wait"
    /\ ret' = NoRet
    /\ UNCHANGED <<cfgVars, saved, life, now, invocations, requester, retryVars, last_executed,
                   delay_span, gateHist, histVars>>

\* the function returned: the time is stored and the value returned
GateReturn ==
    /\ Top = "gate" /\ gpc = "wait" /\ ret.kind = "return"
    /\ last_executed' = now
    /\ gpc' = "idle"
    /\ Pop
    /\ UNCHANGED <<cfgVars, saved, now, invocations, requester, ret, retryVars, delay_span,
                   gateHist, histVars>>

\* the function raised, were the stored time cleared on the way out
GateRaise_clearing ==
    /\ Top = "gate" /\ gpc = "wait" /\ ret.kind = "raise"
    /\ gpc' = "idle"
    /\ last_executed' = None
    /\ Pop
    /\ UNCHANGED <<cfgVars, saved, now, invocations, requester, ret, retryVars,
                   delay_span, gateHist, histVars>>

\* the function raised: the exception leaves the gate, nothing is stored
GateRaise ==
    /\ Top = "gate" /\ gpc = "wait" /\ ret.kind = "raise"
    /\ gpc' = "idle"
    /\ Pop
    /\ UNCHANGED <<cfgVars, saved, now, invocations, requester, ret, retryVars, last_executed,
                   delay_span, gateHist, histVars>>

\* ---- the specifications --------------------------------------------------
Init == InitWith(Configs)

Next ==
    \/ Construct
    \/ \E inst \in Callers, gap \in Gaps : Invoke(inst, gap)
    \/ \E inst \in Instances, a \in {"attempts", "delay"}, v \in 0..Max(MaxAttempts, MaxDelay) :
          SetAttr(inst, a, v)
    \/ \E inst \in Callers : Reenter(inst)
    \/ \E out \in Raisable \cup {"return"}, r \in RunTimes : FuncRun(out, r)
    \/ RetryCall
    \/ RetryTry
    \/ RetryReturn
    \/ RetryRaise
    \/ RetryContinue
    \/ RetryDelayFor
    \/ RetrySleep
    \/ SEWDCall
    \/ \E tick \in 0..MaxTick : SEWDElapsed(tick)
    \/ SewdWrapped
    \/ GateSleep
    \/ GateFunc
    \/ GateReturn
    \/ GateRaise

\* every decorated callable of the repository
Spec == Init /\ [][Next]_vars

\* the three retry wrappers, each around a plain callable
InitRetry == InitWith(RetryConfigs)

NextRetry ==
    \/ Construct
    \/ \E inst \in Callers, gap \in Gaps : Invoke(inst, gap)
    \/ \E inst \in Instances, a \in {"attempts", "delay"}, v \in 0..Max(MaxAttempts, MaxDelay) :
          SetAttr(inst, a, v)
    \/ \E out \in Raisable \cup {"return"}, r \in RunTimes : FuncRun(out, r)
    \/ RetryCall
    \/ RetryTry
    \/ RetryReturn
    \/ RetryRaise
    \/ RetryContinue
    \/ RetryDelayFor
    \/ RetrySleep

SpecRetry == InitRetry /\ [][NextRetry]_vars

\* RepeatUponError around a callable that may call the decorated callable
\* again while it runs
ReentrantConfigs ==
    {Config(t, Bare(n), Bare(0), TypesList(request_exceptions), 0, FieldsOf(0, 0)) :
        t \in {"pypypy_rue", "rm_rue"}, n \in 1..MaxAttempts}

InitReentrant == InitWith(ReentrantConfigs)

NextReentrant ==
    \/ Construct
    \/ \E inst \in Callers, gap \in Gaps : Invoke(inst, gap)
    \/ \E inst \in Callers : Reenter(inst)
    \/ \E out \in Raisable \cup {"return"}, r \in RunTimes : FuncRun(out, r)
    \/ RetryCall
    \/ RetryTry
    \/ RetryReturn
    \/ RetryRaise
    \/ RetryContinue

SpecReentrant == InitReentrant /\ [][NextReentrant]_vars

\* the two throttle gates, each around a plain callable
InitGate == InitWith(GateConfigs)

NextGate ==
    \/ Construct
    \/ \E inst \in Callers, gap \in Gaps : Invoke(inst, gap)
    \/ \E inst \in Instances, a \in {"attempts", "delay"}, v \in 0..Max(MaxAttempts, MaxDelay) :
          SetAttr(inst, a, v)
    \/ \E out \in Raisable \cup {"return"}, r \in RunTimes : FuncRun(out, r)
    \/ SEWDCall
    \/ \E tick \in 0..MaxTick : SEWDElapsed(tick)
    \/ SewdWrapped
    \/ GateSleep
    \/ GateFunc
    \/ GateReturn
    \/ GateRaise

SpecGate == InitGate /\ [][NextGate]_vars

\* make_request: RepeatUponError around SegmentExecutionWithDelay
InitRequest == InitWith(RequestConfigs)

NextRequest ==
    \/ Construct
    \/ \E inst \in Callers, gap \in Gaps : Invoke(inst, gap)
    \/ \E out \in Raisable \cup {"return"}, r \in RunTimes : FuncRun(out, r)
    \/ RetryCall
    \/ RetryTry
    \/ RetryReturn
    \/ RetryRaise
    \/ RetryContinue
    \/ SEWDCall
    \/ \E tick \in 0..MaxTick : SEWDElapsed(tick)
    \/ GateSleep
    \/ GateFunc
    \/ GateReturn
    \/ GateRaise

SpecRequest == InitRequest /\ [][NextRequest]_vars

\* ---- properties of the retry wrappers --------------------------------------
\* the attempt count in force during the invocation
MaxAttemptsInForce == IF target = "roe" THEN attempt_count_l ELSE attempt_count.val

\* the documented meaning of the allow-list: every Exception is retryable
\* when the list is unset or empty, the listed classes otherwise
Retryable(cls) ==
    /\ cls \in ExceptionClasses
    /\ ~Truthy(repeat_exception_types) \/ cls \in repeat_exception_types.kinds

\* every execution of this invocation raised, each time a retryable exception
AllFailedRetryable ==
    /\ execs >= 1
    /\ Len(raised) = execs
    /\ \A i \in 1..Len(raised) : Retryable(raised[i].cls)

\* C1 as stated, of the two retry wrappers of request_mixin: when the callable
\* fails every time with a retryable kind, the wrapper executes it
\* max_attempts times and raises a StoredExceptionArray holding all the raised
\* exceptions in order
C1_AlwaysAggregate ==
    (life = "done" /\ target \in {"rm_rue", "roe"} /\ AllFailedRetryable)
        => /\ execs = MaxAttemptsInForce
           /\ ret = StoredExceptionArray(raised)

\* C1 amended: when the callable fails every time with a retryable kind, both
\* RepeatUponError copies with a non-empty allow-list execute it max_attempts
\* times and raise a StoredExceptionArray of all the raised exceptions in
\* order; the request_mixin RepeatUponError with an empty or unset allow-list,
\* and RepeatOnError with any allow-list, execute it max_attempts times and
\* raise the last exception itself
C1_AggregateOrLast ==
    (life = "done" /\ target \in RetryTargets /\ AllFailedRetryable)
        => IF target \in {"pypypy_rue", "rm_rue"} /\ Truthy(repeat_exception_types)
           THEN /\ execs = MaxAttemptsInForce
                /\ ret = StoredExceptionArray(raised)
                /\ Len(ret.errs) = MaxAttemptsInForce
                /\ \A i \in 1..Len(ret.errs) : ret.errs[i].id = i
           ELSE IF target = "roe" \/ target = "rm_rue"
                THEN /\ execs = MaxAttemptsInForce
                     /\ ret = Raise(raised[execs])
                ELSE TRUE

\* an aggregate of three exceptions was raised after three failed attempts
C1_Witness ==
    /\ life = "done" /\ target = "rm_rue" /\ AllFailedRetryable
    /\ execs = 3
    /\ ret.exc.cls = "StoredExceptionArray"
    /\ Len(ret.errs) = 3

\* C2 as stated (for policies of more than one attempt): with a non-empty
\* allow-list, an exception whose class is outside the list (and derives from
\* no listed class) ends the invocation at once: the callable is not executed
\* again and that exception is what the caller receives
C2_UnlistedStopsAtOnce ==
    (target \in RetryTargets /\ Truthy(repeat_exception_types) /\ MaxAttemptsInForce > 1)
        => \A i \in 1..Len(raised) :
              Bases(raised[i].cls) \cap repeat_exception_types.kinds = {}
                  => /\ raised[i].id = execs
                     /\ life = "done" => ret = Raise(raised[i])

\* C3 as stated: a KeyboardInterrupt raised by the callable is never followed
\* by another execution, never stored in error_container, and is what the
\* caller receives
C3_InterruptPropagates ==
    target \in RetryTargets
        => \A i \in 1..Len(raised) :
              raised[i].cls = "KeyboardInterrupt"
                  => /\ raised[i].id = execs
                     /\ \A j \in 1..Len(error_container) : error_container[j] # raised[i]
                     /\ life = "done" => ret = Raise(raised[i])

\* C4 as stated: whenever the handler runs, an empty allow-list and an unset
\* one decide the same, and with either every Exception is retried: the
\* invocation ends on a failure only at the last attempt
C4_EmptySameAsUnset ==
    (target \in RetryTargets /\ Top = "retry" /\ rpc = "wait" /\ ret.kind = "raise")
        => /\ HandlerWith(TypesList({})) = HandlerWith(NoTypes)
           /\ (~Truthy(repeat_exception_types) /\ ret.exc.cls \in ExceptionClasses
               /\ execs < MaxAttemptsInForce)
                  => Handler.do # "raise"

\* C5 as stated: a returned value is that of the last execution, reached
\* after failures only; and the wrapper does not give up on retryable
\* failures before max_attempts executions, so that a callable succeeding on
\* attempt k <= max_attempts is executed k times
C5_SucceedsOnAttemptK ==
    (life = "done" /\ target \in RetryTargets)
        => /\ ret.kind = "return" => (ret.val = execs /\ Len(raised) = execs - 1)
           /\ (ret.kind = "raise" /\ AllFailedRetryable) => execs = MaxAttemptsInForce

\* ---- properties of the throttle gates -------------------------------------
\* C6 as stated: after every execution of the wrapped callable, returned or
\* raised, the gate holds the time it ended; and an execution that follows one
\* that raised starts no sooner than the delay after it ended
C6_FailureRecorded ==
    target \in GateTargets
        => /\ (gpc = "idle" /\ last_end # None) => last_executed = last_end
           /\ after_kind = "raise" => started_after >= gate_d

C8_ThrottleOutermost ==
    target = "make_request"
        => /\ stack # <<>> => stack[Len(stack)] = "gate"
           /\ gate_entries <= 1

\* C8 amended: in make_request the retry wrapper is the outer layer and the
\* throttle the inner one: every attempt of the retry wrapper enters the gate,
\* so the gate is passed once for each execution of the function, not once for
\* the invocation
C8_RetryOutermost ==
    target = "make_request"
        => /\ stack \in {<<>>, <<"retry">>, <<"gate", "retry">>, <<"func", "gate", "retry">>}
           /\ Top = "func" => gate_entries = execs + 1
           /\ life = "done" => (execs >= 1 /\ gate_entries = execs)

\* an invocation of three attempts has entered the gate three times
C8_Witness ==
    /\ target = "make_request" /\ life = "done"
    /\ execs = 3
    /\ gate_entries = 3

\* ---- construction and delays of the retry wrappers --------------------------
\* the attempt count given to the wrapper, or resolved from the instance
SuppliedAttempts ==
    IF target = "roe" THEN extract_attribute(requester, attempt_count)
    ELSE attempt_count.val

\* C9 as stated: with an attempt count <= 0 every retry wrapper fails with
\* ValueError and never executes the callable
C9_NonPositiveRejected ==
    (target \in RetryTargets /\ SuppliedAttempts <= 0)
        => /\ life \in {"new", "config_error"}
           /\ life = "config_error" => ret = Raise(Exc("ValueError", 0))
           /\ execs = 0 /\ last_end = None

\* C9 amended: both copies of RepeatUponError refuse an attempt count <= 0
\* when they are built, with ValueError, and never execute the callable;
\* RepeatOnError refuses nothing: a count <= 0, given or resolved from the
\* calling instance, is taken as 1 and the callable is executed once in an
\* invocation
C9_RejectedOrClamped ==
    /\ target \in {"pypypy_rue", "rm_rue"}
          => /\ attempt_count.val <= 0
                => (life \in {"new", "config_error"} /\ execs = 0 /\ last_end = None)
             /\ life = "config_error" => (attempt_count.val <= 0
                                          /\ ret = Raise(Exc("ValueError", 0)))
    /\ target = "roe"
          => /\ life # "config_error"
             /\ (life \in {"running", "done"} /\ rpc # "call" /\ SuppliedAttempts <= 0)
                   => /\ attempt_count_l = 1
                      /\ execs <= 1
                      /\ life = "done" => execs = 1

\* a RepeatUponError given the count 0 ended in ValueError
C9_Witness ==
    /\ target = "rm_rue" /\ attempt_count.val = 0
    /\ life = "config_error"
    /\ ret.exc.cls = "ValueError"

\* C10 as stated: RepeatOnError calls time.sleep before every retry, each
\* time with the resolved request_delay
C10_SleepsDelayEachRetry ==
    target = "roe"
        => /\ Top = "func" => Len(rsleeps) = execs
           /\ \A i \in 1..Len(rsleeps) : rsleeps[i] = request_delay_l

\* ---- properties of the throttle gates, continued --------------------------
\* C11: a gate whose last-executed time is unset applies no wait: it never
\* computes a remaining delay, never sleeps, and the callable is called at
\* the clock value the gate was entered at, whatever the delay
C11_UnsetNoWait ==
    (target \in GateTargets /\ life = "running" /\ last_executed = None)
        => /\ gpc \notin {"elapsed", "sleep"}
           /\ gsleeps = <<>>
           /\ gpc = "func" => now = read_at

\* a second call finds the time still unset (the first one raised) and the
\* callable runs with a positive delay configured and no sleep made
C11_Witness ==
    /\ target \in GateTargets /\ life = "running"
    /\ last_executed = None
    /\ invocations = 2
    /\ gate_d > 0
    /\ gpc = "wait" /\ execs = 1
    /\ gsleeps = <<>>

\* ---- properties of the retry wrappers, continued ---------------------------
\* C12 as stated: the wait RepeatOnError makes before a retry is the
\* request delay less the time the failed attempt ran, and never negative
C12_WaitExcludesRunTime ==
    (target = "roe" /\ rpc = "sleep")
        => sleep_for = Max(request_delay_l - ran, 0)

\* what the setting resolves to for the instance the call is made through: a
\* bare value as it is, a pair as the instance's attribute or its fallback
ResolvedFor(inst, setting) ==
    IF setting.attr = "" THEN setting.val
    ELSE IF setting.attr \in fields[inst].has
         THEN (IF setting.attr = "attempts" THEN fields[inst].attempts
               ELSE fields[inst].delay)
         ELSE setting.val

\* C13: each invocation of RepeatOnError resolves its two settings against
\* the instance the call is made through, as that instance is at the call:
\* the count and delay in force are the resolved values (kept within their
\* lower limits), a callable that keeps failing is executed that many times,
\* the first wait is that delay, and no step changes the decorator's settings
C13_ResolvedAtEachCall ==
    /\ [](target = "roe" /\ life \in {"running", "done"} /\ rpc # "call"
            => /\ attempt_count_l = Max(ResolvedFor(requester, attempt_count), 1)
               /\ request_delay_l = Max(ResolvedFor(requester, request_delay), 0)
               /\ (life = "done" /\ AllFailedRetryable) => execs = attempt_count_l
               /\ rsleeps # <<>> => rsleeps[1] = request_delay_l)
    /\ [][/\ attempt_count' = attempt_count
          /\ request_delay' = request_delay
          /\ repeat_exception_types' = repeat_exception_types]_vars

\* the second call through instance "a" used the count assigned to its
\* attribute after the first call, which had used what the attribute held
\* at construction (0 or 2)
C13_Witness ==
    /\ target = "roe" /\ attempt_count.attr = "attempts"
    /\ life = "done" /\ invocations = 2
    /\ requester = "a"
    /\ fields["a"].attempts = MaxAttempts
    /\ AllFailedRetryable
    /\ execs = MaxAttempts

\* ---- properties of the throttle gates, continued --------------------------
\* C14: a call of the attribute-driven gate through an instance without the
\* delay attribute ends at once by raising ValueError: the callable is not
\* executed, no time passes and the stored last-executed time stays as it was
C14_MissingAttributeRaises ==
    [][(target = "sewd" /\ Top = "gate" /\ gpc = "call" /\ "delay" \notin fields[requester].has)
          => /\ life' = "done"
             /\ ret' = Raise(Exc("ValueError", 0))
             /\ execs' = 0
             /\ now' = now
             /\ last_executed' = last_executed]_vars

\* after a call through "a" stored a time, a call through "b", which has no
\* delay attribute, ended with ValueError and no execution
C14_Witness ==
    /\ target = "sewd" /\ life = "done"
    /\ invocations = 2 /\ requester = "b"
    /\ "delay" \notin fields["b"].has
    /\ ret = Raise(Exc("ValueError", 0))
    /\ execs = 0
    /\ last_executed # None

\* ---- properties of the retry wrappers, continued ---------------------------
\* where the invocation stands within one attempt, counted downwards
AttemptPosition ==
    IF rpc = "try" THEN 3
    ELSE IF rpc = "sleep" THEN 5
    ELSE IF rpc = "wait" /\ Top = "func" THEN 2
    ELSE IF rpc = "wait" THEN 9
    ELSE 0

\* steps the invocation can still take: ten for every execution left, and
\* the position within the current attempt
StepsLeft == 10 * (MaxAttemptsInForce - execs) + AttemptPosition

\* C15: an invocation of a retry wrapper never executes the callable more
\* than max_attempts times, has executed it at least once when it ends, and
\* ends: while it runs some step is possible, and every step it takes after
\* its entry brings it closer to its end
C15_BoundedAttemptsAndEnds ==
    /\ [](target \in RetryTargets /\ life \in {"running", "done"} /\ rpc # "call"
            => /\ execs <= MaxAttemptsInForce
               /\ life = "done" => (execs >= 1 /\ ret.kind \in {"return", "raise"})
               /\ life = "running" => (StepsLeft >= 0 /\ ENABLED NextRetry))
    /\ [][(target \in RetryTargets /\ life = "running" /\ rpc # "call" /\ life' = "running")
             => StepsLeft' < StepsLeft]_vars

\* RepeatOnError ended after max_attempts executions that met a success, a
\* retryable failure and waits
C15_Witness ==
    /\ target = "roe" /\ life = "done"
    /\ execs = MaxAttempts /\ attempt_count_l = MaxAttempts
    /\ Len(raised) = MaxAttempts - 1
    /\ ret.kind = "return"
    /\ Len(rsleeps) = MaxAttempts - 1

\* C16 as stated: an invocation of RepeatUponError ends by returning the
\* result of a successful execution of the callable, or by raising one of
\* the exceptions the callable raised or the aggregate of them; it never
\* returns an empty result and never raises an error of its own
C16_NoSilentSwallowing ==
    (target \in {"pypypy_rue", "rm_rue"} /\ life = "done")
        => \/ ret = Return(execs) /\ execs >= 1 /\ last_kind = "return"
           \/ \E i \in 1..Len(raised) : ret = Raise(raised[i])
           \/ raised # <<>> /\ ret = StoredExceptionArray(raised)

\* C17: the container of collected errors belongs to one invocation of
\* RepeatUponError: while the invocation runs it holds exactly the exceptions
\* its own attempts raised and the wrapper has handled, and the aggregate an
\* invocation raises holds exactly the exceptions of its own attempts, in an
\* invocation that follows another as in one started while another is running
C17_LocalToInvocation ==
    /\ [](target \in {"pypypy_rue", "rm_rue"} /\ life = "running" /\ rpc \in {"try", "wait"}
            => /\ Len(error_container) <= Len(raised)
               /\ Len(raised) - Len(error_container) <= 1
               /\ error_container = SubSeq(raised, 1, Len(error_container))
               /\ rpc = "try" => error_container = raised)
    /\ [][(/\ target \in {"pypypy_rue", "rm_rue"}
           /\ Top = "retry" /\ rpc = "wait"
           /\ Top' # "retry"
           /\ ret'.exc.cls = "StoredExceptionArray")
             => ret'.errs = raised]_vars

\* a call made from within the second attempt of an invocation has raised
\* the aggregate of its own two failures; the suspended invocation has its
\* one recorded failure back
C17_Witness ==
    /\ target \in {"pypypy_rue", "rm_rue"} /\ attempt_count.val = 2
    /\ invocations = 2 /\ life = "running"
    /\ stack = <<"func", "retry">> /\ saved = <<>>
    /\ ret.exc.cls = "StoredExceptionArray" /\ Len(ret.errs) = 2
    /\ execs = 1 /\ Len(raised) = 1 /\ error_container = raised

C19_NeverEarlier ==
    /\ [](target \in GateTargets /\ last_executed # None => last_executed <= now)
    /\ [][/\ now' >= now
          /\ (target \in GateTargets /\ last_executed # None)
                => (last_executed' # None /\ last_executed' >= last_executed)]_vars

\* a second call raised some time after the first one returned: the time
\* stored by the first call is still there
C19_Witness ==
    /\ target \in GateTargets /\ life = "done"
    /\ invocations = 2
    /\ last_kind = "raise" /\ after_kind = "return"
    /\ last_executed # None
    /\ last_executed < last_end

\* ---- properties of the retry wrappers, continued ---------------------------
\* the class derives from a class of the allow-list and is not in the list
UnlistedSubclass(cls) ==
    /\ Truthy(repeat_exception_types)
    /\ cls \notin repeat_exception_types.kinds
    /\ Bases(cls) \cap repeat_exception_types.kinds # {}

\* C20: the request_mixin wrappers test the exact class of the exception
\* against a non-empty allow-list: an exception of an unlisted subclass of a
\* listed class is the last thing the invocation executes, no wait or further
\* attempt follows it, and the invocation ends by raising that exception
C20_ExactClassOnly ==
    (target \in {"rm_rue", "roe"} /\ life \in {"running", "done"})
        => \A i \in 1..Len(raised) :
              UnlistedSubclass(raised[i].cls)
                 => /\ i = execs
                    /\ rpc \notin {"try", "sleep"}
                    /\ rsleeps = <<>> \/ Len(rsleeps) < i
                    /\ life = "done" => ret = Raise(raised[i])

\* with only RequestException listed and attempts left, an HTTPError ended
\* the invocation after one execution and reached the caller
C20_Witness ==
    /\ target = "rm_rue" /\ life = "done"
    /\ repeat_exception_types = TypesList({"RequestException"})
    /\ attempt_count.val = MaxAttempts
    /\ execs = 1
    /\ raised = <<Exc("HTTPError", 1)>>
    /\ ret = Raise(Exc("HTTPError", 1))

\* ---- properties of the throttle gates, continued --------------------------
\* C21: a gate never sleeps for a zero or negative time: every time.sleep it
\* makes has a positive argument, and when the wait it computes from its last
\* clock reading is not positive (the clock may have moved on since the
\* reading that found the gate not ready) the callable is called with no
\* sleep, at the time of that reading
C21_NeverSleepsNonPositive ==
    target \in GateTargets
        => /\ \A i \in 1..Len(gsleeps) : gsleeps[i] > 0
           /\ gpc = "sleep" => delay_span > 0
           /\ reads <= (IF target = "SEWD" THEN 2 ELSE 1)
           /\ (/\ Top = "gate" /\ gpc = "func"
               /\ reads = (IF target = "SEWD" THEN 2 ELSE 1))
                 => IF delay_span > 0
                    THEN gsleeps = <<delay_span>>
                    ELSE gsleeps = <<>> /\ now = read_at

\* the first reading found the gate not ready, the second one found nothing
\* left to wait: the callable is about to run and no sleep was made
C21_Witness ==
    /\ target = "SEWD" /\ Top = "gate" /\ gpc = "func"
    /\ gate_d > 0
    /\ reads = 2
    /\ delay_span = 0
    /\ read_at = last_executed + gate_d
    /\ gsleeps = <<>>

\* ---- properties of the retry wrappers, continued ---------------------------
\* C22: RepeatOnError keeps the values it resolves at a call within their
\* lower limits. A resolved count below 1 counts as 1: the callable is
\* executed once, nothing is waited for, and a failure reaches the caller as
\* it was raised. A resolved delay below 0 counts as 0: every wait between
\* attempts is of zero time and the clock is never consulted
C22_ClampedAtCall ==
    (target = "roe" /\ life \in {"running", "done"} /\ rpc # "call")
        => /\ ResolvedFor(requester, attempt_count) < 1
                => /\ attempt_count_l = 1
                   /\ execs <= 1
                   /\ rpc # "sleep" /\ rsleeps = <<>>
                   /\ life = "done"
                         => /\ execs = 1
                            /\ raised # <<>> => ret = Raise(raised[1])
           /\ ResolvedFor(requester, request_delay) < 0
                => /\ request_delay_l = 0
                   /\ rpc = "sleep" => sleep_for = 0
                   /\ \A i \in 1..Len(rsleeps) : rsleeps[i] = 0
                   /\ memory = None

\* the instance's delay attribute is -1 and its count 2: the second attempt
\* followed the failed first one after a wait of zero time
C22_Witness ==
    /\ target = "roe" /\ life = "done"
    /\ ResolvedFor(requester, request_delay) = -1
    /\ ResolvedFor(requester, attempt_count) = 2
    /\ execs = 2
    /\ Len(raised) >= 1
    /\ rsleeps = <<0>>

====
